---- MODULE Spec2Model ----
(***************************************************************************)
(* Model of scripts/cadnano_diff.py: list_to_tups (the canonicalizer) and  *)
(* diff_designs (set classification, positional walk, field walk).         *)
(*                                                                         *)
(* Python values are tagged records:                                       *)
(*   raw scalar   [t |-> "s", v |-> "a"]                                   *)
(*   raw list     [t |-> "l", v |-> <<elem, ...>>]                         *)
(*   raw dict     [t |-> "d", v |-> << <<key, value>>, ... >>]  (insertion *)
(*                order, unique keys)                                      *)
(*   tuple        [t |-> "t", v |-> <<elem, ...>>]                         *)
(*   None         [t |-> "n", v |-> <<>>]                                  *)
(* Indices reported by the program are 0-based, as in the source.          *)
(***************************************************************************)
EXTENDS Integers, Sequences, FiniteSets, TLC

VARIABLES design1, design2, pc, out, err,
          old_vstrands_tups, new_vstrands_tups,
          vstrands_common, vstrands_added, vstrands_removed,
          n_changed, i, j,
          obj1, obj2, tup1, tup2

vars == <<design1, design2, pc, out, err,
          old_vstrands_tups, new_vstrands_tups,
          vstrands_common, vstrands_added, vstrands_removed,
          n_changed, i, j,
          obj1, obj2, tup1, tup2>>

diffvars == <<design1, design2, out, err,
              old_vstrands_tups, new_vstrands_tups,
              vstrands_common, vstrands_added, vstrands_removed,
              n_changed, i, j>>

canonvars == <<obj1, obj2, tup1, tup2>>

----------------------------------------------------------------------------
(* Bounds *)

\* longest vstrands list of a design
MaxLen == 2
\* nesting depth of the values handed to list_to_tups on its own
MaxDepth == 2
\* longest list / largest dict among those values
MaxElems == 2

----------------------------------------------------------------------------
(* Python values *)

Scalar(s) == [t |-> "s", v |-> s]
List(s) == [t |-> "l", v |-> s]
Dict(items) == [t |-> "d", v |-> items]
Tuple(s) == [t |-> "t", v |-> s]
None == [t |-> "n", v |-> <<>>]

\* Python's order on the strings used as dict keys
StrRank == [a |-> 1, b |-> 2, c |-> 3]

Min(m, n) == IF m < n THEN m ELSE n
Max(m, n) == IF m < n THEN n ELSE m

SeqsUpTo(S, n) == UNION {[1..k -> S] : k \in 0..n}

DictKeys(d) == {d.v[k][1] : k \in 1..Len(d.v)}
DictGet(d, key) == d.v[CHOOSE k \in 1..Len(d.v) : d.v[k][1] = key][2]

\* Python's == on raw values: lists compare element-wise in order, dicts
\* compare as key -> value maps (insertion order is irrelevant), values of
\* different kinds are unequal.
RECURSIVE PyEq(_, _)
PyEq(x, y) ==
    IF x.t # y.t THEN FALSE
    ELSE IF x.t = "l"
         THEN /\ Len(x.v) = Len(y.v)
              /\ \A k \in 1..Len(x.v) : PyEq(x.v[k], y.v[k])
    ELSE IF x.t = "d"
         THEN /\ DictKeys(x) = DictKeys(y)
              /\ \A key \in DictKeys(x) : PyEq(DictGet(x, key), DictGet(y, key))
    ELSE x.v = y.v

\* sorted(obj.items()): the (key, value) pairs in ascending key order (keys
\* of a dict are unique, so the values never take part in the comparison)
SortedItems(obj) == SortSeq(obj.v, LAMBDA p, q : StrRank[p[1]] < StrRank[q[1]])

RECURSIVE list_to_tups(_)
list_to_tups(obj) ==
    IF obj.t = "l"
    THEN Tuple([k \in 1..Len(obj.v) |-> list_to_tups(obj.v[k])])
    ELSE IF obj.t = "d"
    THEN LET items == SortedItems(obj)
         IN Tuple([k \in 1..Len(items) |->
                     Tuple(<<Scalar(items[k][1]), list_to_tups(items[k][2])>>)])
    ELSE obj

----------------------------------------------------------------------------
(* Inputs *)

Scalars == {"a"}
Keys == {"a", "b"}

ItemSeqs(S) ==
    {s \in SeqsUpTo(Keys \X S, Min(MaxElems, Cardinality(Keys))) :
        \A m, n \in 1..Len(s) : m # n => s[m][1] # s[n][1]}

RECURSIVE ValuesOfDepth(_)
ValuesOfDepth(d) ==
    IF d = 0 THEN {Scalar(s) : s \in Scalars}
    ELSE LET S == ValuesOfDepth(d - 1)
         IN {Scalar(s) : s \in Scalars}
            \cup {List(s) : s \in SeqsUpTo(S, MaxElems)}
            \cup {Dict(s) : s \in ItemSeqs(S)}

Values == ValuesOfDepth(MaxDepth)

\* The vstrand records the designs are built from.
\*   VsA and VsB differ only in a nested [] against {}
\*   VsC has the keys of VsA and another value of "b"
\*   VsD has a strict prefix of the keys of VsA, with equal values
\*   VsE has other keys
VsA == Dict(<< <<"b", List(<<>>)>>, <<"a", Scalar("a")>> >>)
VsB == Dict(<< <<"a", Scalar("a")>>, <<"b", Dict(<<>>)>> >>)
VsC == Dict(<< <<"a", Scalar("a")>>, <<"b", Scalar("b")>> >>)
VsD == Dict(<< <<"a", Scalar("a")>> >>)
VsE == Dict(<< <<"b", Scalar("a")>>, <<"c", Scalar("a")>> >>)

Vstrands == {VsA, VsB, VsC, VsD, VsE}
Names == {"n1", "n2"}

Designs == {[name |-> n, vstrands |-> List(vs)] :
               n \in Names, vs \in SeqsUpTo(Vstrands, MaxLen)}

----------------------------------------------------------------------------
(* Report lines *)

Line(kind, idx, n, k1, k2) ==
    [kind |-> kind, i |-> idx, n |-> n, k1 |-> k1, k2 |-> k2]


----------------------------------------------------------------------------
(* Helpers of diff_designs *)

\* set(tup)
TupSet(tup) == {tup.v[k] : k \in 1..Len(tup.v)}

Common(new_set, old_set) == new_set \cap old_set

AddedAll(new_set, old_set) == new_set
Added(new_set, old_set) == new_set \ old_set

Removed(new_set, old_set) == old_set \ new_set

\* the k-th (0-based) pair of zip_longest(new_tups, old_tups): <<new, old>>,
\* the exhausted side filled with None
ZipLongest(new_tups, old_tups, k) ==
    << IF k < Len(new_tups.v) THEN new_tups.v[k + 1] ELSE None,
       IF k < Len(old_tups.v) THEN old_tups.v[k + 1] ELSE None >>

ZipLen(new_tups, old_tups) == Max(Len(new_tups.v), Len(old_tups.v))

\* sum(changed_mask)
NChanged(new_tups, old_tups) ==
    Cardinality({k \in 0..(ZipLen(new_tups, old_tups) - 1) :
                    ZipLongest(new_tups, old_tups, k)[1]
                        # ZipLongest(new_tups, old_tups, k)[2]})

\* tup.index(x): 0-based position of the first element equal to x;
\* -1 stands for the ValueError raised when there is none
TupleIndexOneBased(tup, x) ==
    IF \E k \in 1..Len(tup.v) : tup.v[k] = x
    THEN CHOOSE k \in 1..Len(tup.v) :
            /\ tup.v[k] = x
            /\ \A m \in 1..(k - 1) : tup.v[m] # x
    ELSE -1
TupleIndex(tup, x) ==
    IF \E k \in 1..Len(tup.v) : tup.v[k] = x
    THEN (CHOOSE k \in 1..Len(tup.v) :
            /\ tup.v[k] = x
            /\ \A m \in 1..(k - 1) : tup.v[m] # x) - 1
    ELSE -1

----------------------------------------------------------------------------
(* diff_designs *)

InitDiff ==
    /\ design1 \in Designs
    /\ design2 \in Designs
    /\ pc = "start"
    /\ out = <<>>
    /\ err = "none"
    /\ old_vstrands_tups = Tuple(<<>>)
    /\ new_vstrands_tups = Tuple(<<>>)
    /\ vstrands_common = {}
    /\ vstrands_added = {}
    /\ vstrands_removed = {}
    /\ n_changed = 0
    /\ i = 0
    /\ j = 0
    /\ obj1 = None /\ obj2 = None /\ tup1 = None /\ tup2 = None

NameLines ==
    IF design1.name # design2.name
    THEN <<Line("NewName", 0, 0, design1.name, design2.name)>>
    ELSE <<>>

\* lines 123-127: the name line and the early return on equal vstrands
CompareVstrands ==
    /\ pc = "start"
    /\ IF PyEq(design1.vstrands, design2.vstrands)
       THEN /\ out' = NameLines \o <<Line("Identical", 0, 0, "", "")>>
            /\ pc' = "done"
       ELSE /\ out' = NameLines
            /\ pc' = "classify"
    /\ UNCHANGED <<design1, design2, err, old_vstrands_tups, new_vstrands_tups,
                   vstrands_common, vstrands_added, vstrands_removed,
                   n_changed, i, j, canonvars>>

\* lines 128-152: canonical forms, the three sets, the changed mask, the
\* counts
Classify ==
    /\ pc = "classify"
    /\ LET old_tups == list_to_tups(design1.vstrands)
           new_tups == list_to_tups(design2.vstrands)
           old_set == TupSet(old_tups)
           new_set == TupSet(new_tups)
           common == Common(new_set, old_set)
           added == Added(new_set, old_set)
           removed == Removed(new_set, old_set)
           n == NChanged(new_tups, old_tups)
       IN /\ old_vstrands_tups' = old_tups
          /\ new_vstrands_tups' = new_tups
          /\ vstrands_common' = common
          /\ vstrands_added' = added
          /\ vstrands_removed' = removed
          /\ n_changed' = n
          /\ IF n = 0
             THEN /\ out' = Append(out, Line("NoPairwise", 0, 0, "", ""))
                  /\ pc' = "done"
             ELSE /\ out' = out \o
                       << Line("NChanged", 0, n, "", ""),
                          Line("NAdded", 0, Cardinality(added), "", ""),
                          Line("NRemoved", 0, Cardinality(removed), "", ""),
                          Line("NCommon", 0, Cardinality(common), "", ""),
                          Line("PairwiseChanges", 0, 0, "", "") >>
                  /\ pc' = "loop"
    /\ UNCHANGED <<design1, design2, err, i, j, canonvars>>

new_vs == ZipLongest(new_vstrands_tups, old_vstrands_tups, i)[1]
old_vs == ZipLongest(new_vstrands_tups, old_vstrands_tups, i)[2]

InLoop == pc = "loop" /\ i < ZipLen(new_vstrands_tups, old_vstrands_tups)

LoopFixed == <<design1, design2, old_vstrands_tups, new_vstrands_tups,
               vstrands_common, vstrands_added, vstrands_removed, n_changed,
               canonvars>>

\* lines 154-155
StepUnchanged ==
    /\ InLoop
    /\ new_vs = old_vs
    /\ i' = i + 1
    /\ UNCHANGED <<pc, out, err, j, LoopFixed>>

\* lines 156-158
StepExtended ==
    /\ InLoop
    /\ new_vs # old_vs
    /\ old_vs = None \/ new_vs = None
    /\ out' = Append(out, Line("Extended", i, 0,
                               IF old_vs = None THEN "new" ELSE "old", ""))
    /\ i' = i + 1
    /\ UNCHANGED <<pc, err, j, LoopFixed>>

\* old_vs in vstrands_common
InCommon(vs, common) == vs \in common

\* lines 159-162: line 160 looks new_vstrands_tups[0] up in the old tuple
\* and raises ValueError when it is not there
StepMoved ==
    /\ InLoop
    /\ new_vs # old_vs
    /\ old_vs # None /\ new_vs # None
    /\ InCommon(old_vs, vstrands_common)
    /\ IF TupleIndex(old_vstrands_tups, new_vstrands_tups.v[1]) = -1
       THEN /\ pc' = "raised"
            /\ err' = "ValueError"
            /\ UNCHANGED <<out, i>>
       ELSE /\ out' = Append(out, Line("Moved", i,
                                       TupleIndex(new_vstrands_tups, old_vs),
                                       "", ""))
            /\ i' = i + 1
            /\ UNCHANGED <<pc, err>>
    /\ UNCHANGED <<j, LoopFixed>>

\* line 163, first entry: the pair is neither equal, nor extended, nor moved
StepModified ==
    /\ InLoop
    /\ new_vs # old_vs
    /\ old_vs # None /\ new_vs # None
    /\ ~InCommon(old_vs, vstrands_common)
    /\ pc' = "fields"
    /\ j' = 0
    /\ UNCHANGED <<out, err, i, LoopFixed>>

\* zip(old_vs, new_vs) stops at the shorter record
FieldsLen(old, new) == Min(Len(old.v), Len(new.v))

oldk == old_vs.v[j + 1].v[1].v
oldv == old_vs.v[j + 1].v[2]
newk == new_vs.v[j + 1].v[1].v
newv == new_vs.v[j + 1].v[2]

\* old_vs.get('num'): only a dict has .get; on anything else the attribute
\* lookup raises AttributeError
HasGet(obj) == obj.t = "d"

\* lines 163-170, one position of the field walk
FieldStep ==
    /\ pc = "fields"
    /\ j < FieldsLen(old_vs, new_vs)
    /\ IF oldk # newk
       THEN /\ out' = Append(out, Line("KeyMismatch", i, 0, oldk, newk))
            /\ j' = j + 1
            /\ UNCHANGED <<pc, err>>
       ELSE IF newv = oldv
       THEN /\ j' = j + 1
            /\ UNCHANGED <<pc, out, err>>
       ELSE IF HasGet(old_vs)
       THEN /\ out' = Append(out, Line("FieldChanged", i, 0, oldk, ""))
            /\ j' = j + 1
            /\ UNCHANGED <<pc, err>>
       ELSE /\ pc' = "raised"
            /\ err' = "AttributeError"
            /\ UNCHANGED <<out, j>>
    /\ UNCHANGED <<i, LoopFixed>>

\* line 163, zip exhausted: on to the next index
FieldsDone ==
    /\ pc = "fields"
    /\ j = FieldsLen(old_vs, new_vs)
    /\ pc' = "loop"
    /\ i' = i + 1
    /\ UNCHANGED <<out, err, j, LoopFixed>>

\* line 153, enumerate exhausted: diff_designs returns
LoopDone ==
    /\ pc = "loop"
    /\ i = ZipLen(new_vstrands_tups, old_vstrands_tups)
    /\ pc' = "done"
    /\ UNCHANGED <<out, err, i, j, LoopFixed>>

Next ==
    \/ CompareVstrands
    \/ Classify
    \/ StepUnchanged
    \/ StepExtended
    \/ StepMoved
    \/ StepModified
    \/ FieldStep
    \/ FieldsDone
    \/ LoopDone

Spec == InitDiff /\ [][Next]_vars

----------------------------------------------------------------------------
(* list_to_tups on its own *)

InitCanon ==
    /\ obj1 \in Values
    /\ obj2 \in Values
    /\ tup1 = None
    /\ tup2 = None
    /\ pc = "canon"
    /\ design1 = [name |-> "n1", vstrands |-> List(<<>>)]
    /\ design2 = [name |-> "n1", vstrands |-> List(<<>>)]
    /\ out = <<>>
    /\ err = "none"
    /\ old_vstrands_tups = Tuple(<<>>)
    /\ new_vstrands_tups = Tuple(<<>>)
    /\ vstrands_common = {}
    /\ vstrands_added = {}
    /\ vstrands_removed = {}
    /\ n_changed = 0
    /\ i = 0
    /\ j = 0

Canonicalize ==
    /\ pc = "canon"
    /\ tup1' = list_to_tups(obj1)
    /\ tup2' = list_to_tups(obj2)
    /\ pc' = "canon_done"
    /\ UNCHANGED <<obj1, obj2, diffvars>>

NextCanon == Canonicalize

SpecCanon == InitCanon /\ [][NextCanon]_vars

----------------------------------------------------------------------------
(* Vocabulary of the properties, computed from the two inputs *)

OldCanon == list_to_tups(design1.vstrands).v
NewCanon == list_to_tups(design2.vstrands).v
OldSet == {OldCanon[k] : k \in 1..Len(OldCanon)}
NewSet == {NewCanon[k] : k \in 1..Len(NewCanon)}

MaxIdx == Max(Len(OldCanon), Len(NewCanon))
Both(k) == k < Len(OldCanon) /\ k < Len(NewCanon)
OldAt(k) == OldCanon[k + 1]
NewAt(k) == NewCanon[k + 1]
KeySeq(rec) == [f \in 1..Len(rec.v) |-> rec.v[f].v[1].v]
ValSeq(rec) == [f \in 1..Len(rec.v) |-> rec.v[f].v[2]]

IsTail(k) == Min(Len(OldCanon), Len(NewCanon)) <= k /\ k < MaxIdx
IsMoved(k) == Both(k) /\ OldAt(k) # NewAt(k) /\ OldAt(k) \in NewSet
IsModified(k) == Both(k) /\ OldAt(k) # NewAt(k) /\ OldAt(k) \notin NewSet

\* first 0-based position of rec in the new sequence
FirstInNew(rec) ==
    CHOOSE n \in 0..(Len(NewCanon) - 1) :
        /\ NewAt(n) = rec
        /\ \A m \in 0..(n - 1) : NewAt(m) # rec

Finished == pc \in {"done", "raised"}
\* the walk has passed the counts and entered the positional loop
Walking == pc \in {"loop", "fields", "raised"} \/ (pc = "done" /\ n_changed > 0)
\* the walk has dealt with index k: left it behind, or raised on it
Visited(k) == Walking /\ (k < i \/ (pc = "raised" /\ k = i))
RaisedAt(k) == pc = "raised" /\ i = k

LinesOf(kind, k) == {n \in 1..Len(out) : out[n].kind = kind /\ out[n].i = k}
LinesOfKind(kind) == {n \in 1..Len(out) : out[n].kind = kind}
FieldLines(k, key) ==
    {n \in 1..Len(out) :
        out[n].kind = "FieldChanged" /\ out[n].i = k /\ out[n].k1 = key}

----------------------------------------------------------------------------
(* Properties *)

\* C1: at a Modified index whose two records have the same field names, the
\* report holds exactly one field-level line for each field whose values
\* differ, none for a field whose values agree, and the walk does not raise
\* there.
C1_FieldFindings ==
    \A k \in 0..(MaxLen - 1) :
        (Visited(k) /\ IsModified(k) /\ KeySeq(OldAt(k)) = KeySeq(NewAt(k)))
        => /\ ~RaisedAt(k)
           /\ \A f \in 1..Len(OldAt(k).v) :
                Cardinality(FieldLines(k, KeySeq(OldAt(k))[f]))
                  = IF ValSeq(OldAt(k))[f] # ValSeq(NewAt(k))[f] THEN 1 ELSE 0

\* C2: at a Moved index the report holds one Moved line whose to_index is the
\* first position of the old record in the new sequence, also when the first
\* new record is nowhere in the old sequence.
C2_MovedReported ==
    \A k \in 0..(MaxLen - 1) :
        (Visited(k) /\ IsMoved(k))
        => /\ ~RaisedAt(k)
           /\ Cardinality(LinesOf("Moved", k)) = 1
           /\ \A n \in LinesOf("Moved", k) : out[n].n = FirstInNew(OldAt(k))

\* C3: two values have the same canonical form exactly when they are
\* value-equal.
C3_CanonIffEqual ==
    pc = "canon_done" => ((tup1 = tup2) <=> PyEq(obj1, obj2))

\* C4: canonically identical record sequences give the optional name line
\* followed by the single "identical" line and nothing else.
C4_IdenticalShortCircuit ==
    (Finished /\ OldCanon = NewCanon)
    => out = NameLines \o <<Line("Identical", 0, 0, "", "")>>

\* C5: the three computed sets are pairwise disjoint, removed and common make
\* up the canonical old records, added and common the canonical new records.
C5_SetsPartition ==
    (pc \in {"loop", "fields", "raised"} \/ (pc = "done" /\ out # <<>>
        /\ out[Len(out)].kind # "Identical"))
    => /\ vstrands_added \cap vstrands_removed = {}
       /\ vstrands_added \cap vstrands_common = {}
       /\ vstrands_removed \cap vstrands_common = {}
       /\ vstrands_removed \cup vstrands_common = OldSet
       /\ vstrands_added \cup vstrands_common = NewSet

C5_Witness ==
    /\ pc = "loop"
    /\ vstrands_added # {}
    /\ vstrands_removed # {}
    /\ vstrands_common # {}

\* C6: with sequences of different lengths every tail index gets exactly one
\* Extended line naming the side that has the element, and no Moved or
\* field-level line.
C6_TailExtended ==
    Finished =>
        \A k \in 0..(MaxLen - 1) :
            IsTail(k)
            => /\ Cardinality(LinesOf("Extended", k)) = 1
               /\ \A n \in LinesOf("Extended", k) :
                    out[n].k1 = IF k >= Len(OldCanon) THEN "new" ELSE "old"
               /\ LinesOf("Moved", k) = {}
               /\ LinesOf("FieldChanged", k) = {}
               /\ LinesOf("KeyMismatch", k) = {}

IsSwap(x, y) ==
    /\ x.t = "l" /\ y.t = "l"
    /\ Len(x.v) = 2 /\ Len(y.v) = 2
    /\ x.v[1] = y.v[2] /\ x.v[2] = y.v[1]
    /\ ~PyEq(x.v[1], x.v[2])

\* C7: value-equal mappings that differ in insertion order have the same
\* canonical form, and the lists [a, b] and [b, a] with a != b have different
\* canonical forms.
C7_OrderRules ==
    pc = "canon_done"
    => /\ (obj1.t = "d" /\ obj2.t = "d" /\ PyEq(obj1, obj2)) => tup1 = tup2
       /\ IsSwap(obj1, obj2) => tup1 # tup2

\* C8: a Modified index whose records have different field-name sequences
\* gets a KeyMismatch line.
C8_KeyMismatchReported ==
    \A k \in 0..(MaxLen - 1) :
        (Visited(k) /\ ~RaisedAt(k) /\ IsModified(k)
            /\ KeySeq(OldAt(k)) # KeySeq(NewAt(k)))
        => LinesOf("KeyMismatch", k) # {}

\* C9: after the first key disagreement at an index nothing more is reported
\* for that index: one KeyMismatch line, no field-level line after it, and
\* the walk does not raise there.
C9_StopAfterKeyMismatch ==
    \A k \in 0..(MaxLen - 1) :
        LinesOf("KeyMismatch", k) # {}
        => /\ Cardinality(LinesOf("KeyMismatch", k)) = 1
           /\ \A m \in LinesOf("KeyMismatch", k) :
                \A n \in LinesOf("FieldChanged", k) : n < m
           /\ ~RaisedAt(k)

SameSetsOtherOrder == OldSet = NewSet /\ OldCanon # NewCanon

\* C10: when both sequences hold the same set of canonical records but are
\* not identical, the walk never raises, always has a next step until it
\* returns, reports no field-level or KeyMismatch line, and has reported each
\* differing index as Moved (to another index, where the new sequence holds
\* the old record) or as Extended.
C10_PureReorder ==
    SameSetsOtherOrder
    => /\ pc # "raised" /\ err = "none"
       /\ pc # "done" => ENABLED Next
       /\ LinesOfKind("FieldChanged") = {}
       /\ LinesOfKind("KeyMismatch") = {}
       /\ pc = "done" =>
            \A k \in 0..(MaxIdx - 1) :
                IF IsTail(k)
                THEN Cardinality(LinesOf("Extended", k)) = 1
                ELSE IF OldAt(k) = NewAt(k)
                THEN LinesOf("Moved", k) = {} /\ LinesOf("Extended", k) = {}
                ELSE /\ Cardinality(LinesOf("Moved", k)) = 1
                     /\ \A n \in LinesOf("Moved", k) :
                          /\ out[n].n # k
                          /\ out[n].n \in 0..(Len(NewCanon) - 1)
                          /\ NewAt(out[n].n) = OldAt(k)

C10_Witness ==
    /\ SameSetsOtherOrder
    /\ pc = "done"
    /\ LinesOfKind("Moved") # {}

====
